---------------------------- MODULE Spec2Model ----------------------------
(***************************************************************************)
(* RC Beam Design (ACI 318): the Streamlit page of src/app.py.             *)
(*                                                                         *)
(* The page holds seven input widgets and a "Calculate Design" button.     *)
(* Every interaction reruns the script top to bottom; the button reads     *)
(* True only in the rerun its click causes.  The design functions          *)
(* (max_moment, flexural_design, shear_design, draw_beam, draw_diagrams)   *)
(* are pure.                                                               *)
(*                                                                         *)
(* Numbers.  The design values (max_moment, flexural_design,               *)
(* shear_design) are computed as the code computes them, in IEEE 754       *)
(* binary64 with every operation rounded, and round(x, 2) yields the       *)
(* number of hundredths Python's round yields.  The sampled envelope of    *)
(* draw_diagrams is kept as exact reduced fractions [n, d] of integers.    *)
(* The widgets hold integers here; the calculations take their float       *)
(* values, and any other float.                                            *)
(***************************************************************************)
EXTENDS Integers, Sequences, FiniteSets

(***************************************************************************)
(* Bounds of the input domain.                                             *)
(***************************************************************************)
\* width b ranges over 50*i mm, i in MinWidthStep..MaxWidthStep
MaxWidthStep == 6
\* depth d ranges over 250*i mm, i in -1..MaxDepthStep
MaxDepthStep == 3

\* number of points np.linspace samples (src/app.py:100)
NumSamples == 100

BeamOptions == <<"Simply Supported", "Fixed End", "Cantilever", "Overhang">>
\* a variant string the selectbox does not offer
UnknownBeam == "Continuous"

LoadValues  == {0, 11, 30}
SpanValues  == {-10, 0, 20, 23}
WidthValues == {50 * i : i \in 5..MaxWidthStep}
DepthValues == {250 * i : i \in -1..MaxDepthStep}
FcValues    == {-5, 0, 25, 28, 30}
FyValues    == {-420, 0, 420}

(***************************************************************************)
(* Integer helpers.                                                        *)
(***************************************************************************)
Abs(x) == IF x < 0 THEN -x ELSE x

Sgn(x) == IF x < 0 THEN -1 ELSE IF x = 0 THEN 0 ELSE 1

RECURSIVE GCD(_, _)
GCD(a, b) == IF b = 0 THEN a ELSE GCD(b, a % b)

(***************************************************************************)
(* Exact fractions of integers, kept reduced with a positive denominator:  *)
(* the values of the expressions of draw_diagrams.                         *)
(***************************************************************************)
Rat(n, d) ==
    LET g == GCD(Abs(n), Abs(d))
    IN  [n |-> Sgn(n) * Sgn(d) * (Abs(n) \div g), d |-> Abs(d) \div g]

RatInt(k) == [n |-> k, d |-> 1]

RatSub(a, b) == Rat(a.n * b.d - b.n * a.d, a.d * b.d)

RatMul(a, b) ==
    LET g1 == GCD(Abs(a.n), b.d)
        g2 == GCD(Abs(b.n), a.d)
    IN  IF a.n = 0 \/ b.n = 0 THEN RatInt(0)
        ELSE [n |-> (a.n \div g1) * (b.n \div g2),
              d |-> (a.d \div g2) * (b.d \div g1)]

\* a / k for a non-zero integer k
RatDivInt(a, k) == RatMul(a, Rat(1, k))

(***************************************************************************)
(* Naturals of arbitrary size: a sequence of base-2^14 digits, least       *)
(* significant first, no leading zero digit; <<>> is zero.  They carry the *)
(* exact products that rounding and comparing float values need.           *)
(***************************************************************************)
LimbBits == 14

Base == 2^LimbBits

RECURSIVE BigOf(_)
BigOf(k) == IF k = 0 THEN <<>> ELSE <<k % Base>> \o BigOf(k \div Base)

RECURSIVE BigToInt(_)
\* the value of a numeral below 2^31
BigToInt(a) == IF a = <<>> THEN 0 ELSE a[1] + Base * BigToInt(Tail(a))

RECURSIVE ColSum(_, _, _, _)
\* column k of the product: the sum of a[j] * b[k+1-j] over j >= i
ColSum(a, b, k, i) ==
    IF i > Len(a) \/ i > k THEN 0
    ELSE (IF k + 1 - i <= Len(b) THEN a[i] * b[k + 1 - i] ELSE 0)
         + ColSum(a, b, k, i + 1)

RECURSIVE Carry(_, _, _)
\* the digits of the column sums c from column k on, with carry in
Carry(c, k, cin) ==
    IF k > Len(c)
    THEN BigOf(cin)
    ELSE <<(c[k] + cin) % Base>> \o Carry(c, k + 1, (c[k] + cin) \div Base)

BigMul(a, b) ==
    IF a = <<>> \/ b = <<>> THEN <<>>
    ELSE Carry([k \in 1..(Len(a) + Len(b) - 1) |-> ColSum(a, b, k, 1)], 1, 0)

\* digit i, zero beyond the numeral
BigLimb(a, i) == IF i >= 1 /\ i <= Len(a) THEN a[i] ELSE 0

BigAdd(a, b) ==
    IF a = <<>> THEN b
    ELSE IF b = <<>> THEN a
    ELSE Carry([i \in 1..(IF Len(a) > Len(b) THEN Len(a) ELSE Len(b)) |->
                   BigLimb(a, i) + BigLimb(b, i)], 1, 0)

RECURSIVE BigCmpFrom(_, _, _)
BigCmpFrom(a, b, i) ==
    IF i = 0 THEN 0
    ELSE IF a[i] < b[i] THEN -1
    ELSE IF a[i] > b[i] THEN 1
    ELSE BigCmpFrom(a, b, i - 1)

\* -1, 0 or 1 as a < b, a = b or a > b
BigCmp(a, b) ==
    IF Len(a) < Len(b) THEN -1
    ELSE IF Len(a) > Len(b) THEN 1
    ELSE BigCmpFrom(a, b, Len(a))

BigSq(a) == BigMul(a, a)

\* 2^k
BigPow2(k) ==
    [i \in 1..(k \div LimbBits + 1) |->
        IF i = k \div LimbBits + 1 THEN 2^(k % LimbBits) ELSE 0]

\* a * 2^k
BigShl(a, k) == BigMul(a, BigPow2(k))

\* bit i of a, bit 0 the least significant
BigBit(a, i) == (BigLimb(a, i \div LimbBits + 1) \div 2^(i % LimbBits)) % 2

\* the k lowest bits of a are all zero
BigLowZero(a, k) ==
    \A i \in 1..Len(a) :
        IF i * LimbBits <= k THEN a[i] = 0
        ELSE IF (i - 1) * LimbBits < k
        THEN a[i] % 2^(k - (i - 1) * LimbBits) = 0
        ELSE TRUE

RECURSIVE BigTrim(_)
BigTrim(a) ==
    IF a = <<>> THEN <<>>
    ELSE IF a[Len(a)] # 0 THEN a
    ELSE BigTrim(SubSeq(a, 1, Len(a) - 1))

\* floor(a / 2^k)
BigShr(a, k) ==
    LET q == k \div LimbBits
        r == k % LimbBits
    IN  IF Len(a) <= q THEN <<>>
        ELSE BigTrim([j \in 1..(Len(a) - q) |->
                        (a[q + j] \div 2^r)
                        + (BigLimb(a, q + j + 1) % 2^r) * 2^(LimbBits - r)])

\* a / 2^k (k >= 1) rounded to the nearest integer, a tie to the even one
BigShrNearestEven(a, k) ==
    LET q  == BigShr(a, k)
        up == /\ BigBit(a, k - 1) = 1
              /\ \/ ~BigLowZero(a, k - 1)
                 \/ BigLimb(q, 1) % 2 = 1
    IN  IF up THEN Carry(q, 1, 1) ELSE q

(***************************************************************************)
(* Python floats: IEEE 754 binary64, every operation rounded to nearest,   *)
(* ties to even.  A float is [s, hi, lo, e] with value                     *)
(* s * (hi * 2^28 + lo) * 2^e; a non-zero one has s = 1 or -1 and a 53-bit *)
(* significand, 2^52 <= hi * 2^28 + lo < 2^53.  0.0 and -0.0, equal under  *)
(* Python's ==, are the one value FZero.  The exponent is not bounded:     *)
(* no value the page's arithmetic reaches from inputs below 2^31 in size   *)
(* overflows or is subnormal.                                              *)
(***************************************************************************)
Word == Base * Base

FZero == [s |-> 0, hi |-> 0, lo |-> 0, e |-> 0]

RECURSIVE BitLen(_)
\* the number of bits of k >= 0
BitLen(k) ==
    IF k = 0 THEN 0
    ELSE IF k >= Base THEN LimbBits + BitLen(k \div Base)
    ELSE 1 + BitLen(k \div 2)

\* float(k) for an integer k, exact
FromInt(k) ==
    IF k = 0 THEN FZero
    ELSE LET a == Abs(k)
             t == 53 - BitLen(a)
         IN  [s  |-> Sgn(k),
              hi |-> IF t >= 28 THEN a * 2^(t - 28) ELSE a \div 2^(28 - t),
              lo |-> IF t >= 28 THEN 0 ELSE (a % 2^(28 - t)) * 2^t,
              e  |-> -t]

\* a float next to s * (nhi * 2^28 + nlo) * 2^e, plus a non-zero part below
\* the last bit when sticky; 2^53 <= nhi * 2^28 + nlo < 2^55.  The value
\* itself when it is a float; else, by mode, the nearest float (a tie to the
\* even one), the next one below or the next one above in magnitude.
Round53(mode, s, nhi, nlo, e, sticky) ==
    LET two == nhi >= 2^26
        qhi == IF two THEN nhi \div 4 ELSE nhi \div 2
        qlo == IF two THEN (nlo \div 4) + (nhi % 4) * 2^26
                      ELSE (nlo \div 2) + (nhi % 2) * 2^27
        rnd == IF two THEN (nlo \div 2) % 2 ELSE nlo % 2
        st  == sticky \/ (two /\ nlo % 2 = 1)
        ex  == IF two THEN e + 2 ELSE e + 1
        up  == CASE mode = "nearest" -> rnd = 1 /\ (st \/ qlo % 2 = 1)
                 [] mode = "below"   -> FALSE
                 [] mode = "above"   -> rnd = 1 \/ st
    IN  IF ~up THEN [s |-> s, hi |-> qhi, lo |-> qlo, e |-> ex]
        ELSE IF qlo + 1 < Word THEN [s |-> s, hi |-> qhi, lo |-> qlo + 1, e |-> ex]
        ELSE IF qhi + 1 < 2^25 THEN [s |-> s, hi |-> qhi + 1, lo |-> 0, e |-> ex]
        ELSE [s |-> s, hi |-> 2^24, lo |-> 0, e |-> ex + 1]

\* the float nearest to a value: the rounding of IEEE 754 arithmetic
Pack(s, nhi, nlo, e, sticky) == Round53("nearest", s, nhi, nlo, e, sticky)

\* the product of x and y, rounded by mode
FMulTo(mode, x, y) ==
    IF x.s = 0 \/ y.s = 0 THEN FZero
    ELSE LET a0 == x.lo % Base   a1 == x.lo \div Base
             a2 == x.hi % Base   a3 == x.hi \div Base
             b0 == y.lo % Base   b1 == y.lo \div Base
             b2 == y.hi % Base   b3 == y.hi \div Base
             t0 == a0 * b0
             t1 == a0 * b1 + a1 * b0 + (t0 \div Base)
             t2 == a0 * b2 + a1 * b1 + a2 * b0 + (t1 \div Base)
             t3 == a0 * b3 + a1 * b2 + a2 * b1 + a3 * b0 + (t2 \div Base)
             t4 == a1 * b3 + a2 * b2 + a3 * b1 + (t3 \div Base)
             t5 == a2 * b3 + a3 * b2 + (t4 \div Base)
             t6 == a3 * b3 + (t5 \div Base)
             \* the 106-bit product in four 28-bit words
             W0 == (t0 % Base) + (t1 % Base) * Base
             W1 == (t2 % Base) + (t3 % Base) * Base
             W2 == (t4 % Base) + (t5 % Base) * Base
             W3 == t6
         IN  Round53(mode, x.s * y.s,
                     (W2 \div 2^23) + W3 * 2^5,
                     (W1 \div 2^23) + (W2 % 2^23) * 2^5,
                     x.e + y.e + 51,
                     W0 # 0 \/ W1 % 2^23 # 0)

\* x * y
FMul(x, y) == FMulTo("nearest", x, y)

\* x**2 is C's pow(x, 2.0), which the C library does not always round to the
\* nearest float: the square itself when it is a float, else one of the two
\* floats next to it, which one being the library's choice for that x
LibmRoundings == {"below", "above"}

Pow2(x, libm) == FMulTo(libm, x, x)

\* the library's choices that give different values of x**2
PowRoundings(x) ==
    IF Pow2(x, "below") = Pow2(x, "above") THEN {"below"} ELSE LibmRoundings

\* one more bit of the quotient: st = <<rhi, rlo, qhi, qlo>>, the remainder
\* r and the quotient q so far, the divisor being d
DivStep(st, dhi, dlo) ==
    LET r2lo == (2 * st[2]) % Word
        r2hi == 2 * st[1] + ((2 * st[2]) \div Word)
        ge   == r2hi > dhi \/ (r2hi = dhi /\ r2lo >= dlo)
        bw   == IF r2lo < dlo THEN 1 ELSE 0
        q2lo == 2 * st[4] + (IF ge THEN 1 ELSE 0)
    IN  <<IF ge THEN r2hi - dhi - bw ELSE r2hi,
          IF ge THEN r2lo - dlo + bw * Word ELSE r2lo,
          2 * st[3] + (q2lo \div Word),
          q2lo % Word>>

RECURSIVE DivLoop(_, _, _, _)
\* n >= 1 steps of the long division; the first half of the steps is
\* evaluated before the second half is entered
DivLoop(st, dhi, dlo, n) ==
    IF n = 1 THEN DivStep(st, dhi, dlo)
    ELSE LET half == DivLoop(st, dhi, dlo, n \div 2)
         IN  IF Len(half) = 4 THEN DivLoop(half, dhi, dlo, n - n \div 2)
             ELSE half

\* x / y for y # 0: the quotient of the significands to 55 bits, rounded
FDiv(x, y) ==
    IF x.s = 0 THEN FZero
    ELSE LET ge == x.hi > y.hi \/ (x.hi = y.hi /\ x.lo >= y.lo)
             bw == IF x.lo < y.lo THEN 1 ELSE 0
             st == DivLoop(<<IF ge THEN x.hi - y.hi - bw ELSE x.hi,
                             IF ge THEN x.lo - y.lo + bw * Word ELSE x.lo,
                             0, IF ge THEN 1 ELSE 0>>, y.hi, y.lo, 54)
         IN  Pack(x.s * y.s, st[3], st[4], x.e - y.e - 54,
                  st[1] # 0 \/ st[2] # 0)

\* bit i of the significand of x, zero outside it
SigBit(x, i) ==
    IF i < 0 \/ i > 52 THEN 0
    ELSE IF i < 28 THEN (x.lo \div 2^i) % 2
    ELSE (x.hi \div 2^(i - 28)) % 2

\* one more bit of the square root of sig(x) * 2^k, from the pair of bits j:
\* st = <<j, mhi, mlo, thi, tlo>>, the remainder m and the root t so far
SqrtStep(st, x, k) ==
    LET pair == 2 * SigBit(x, 2 * st[1] + 1 - k) + SigBit(x, 2 * st[1] - k)
        m4lo == (4 * st[3] + pair) % Word
        m4hi == 4 * st[2] + ((4 * st[3] + pair) \div Word)
        \* the trial subtrahend 4 * root + 1
        ulo  == (4 * st[5] + 1) % Word
        uhi  == 4 * st[4] + ((4 * st[5] + 1) \div Word)
        ge   == m4hi > uhi \/ (m4hi = uhi /\ m4lo >= ulo)
        bw   == IF m4lo < ulo THEN 1 ELSE 0
        t2lo == 2 * st[5] + (IF ge THEN 1 ELSE 0)
    IN  <<st[1] - 1,
          IF ge THEN m4hi - uhi - bw ELSE m4hi,
          IF ge THEN m4lo - ulo + bw * Word ELSE m4lo,
          2 * st[4] + (t2lo \div Word),
          t2lo % Word>>

RECURSIVE SqrtLoop(_, _, _, _)
\* n >= 1 steps of the square root; the first half of the steps is evaluated
\* before the second half is entered
SqrtLoop(st, x, k, n) ==
    IF n = 1 THEN SqrtStep(st, x, k)
    ELSE LET half == SqrtLoop(st, x, k, n \div 2)
         IN  IF Len(half) = 5 THEN SqrtLoop(half, x, k, n - n \div 2)
             ELSE half

\* math.sqrt(x) for x >= 0: correctly rounded, from the 55 pairs of bits of
\* sig(x) * 2^k
FSqrt(x) ==
    IF x.s = 0 THEN FZero
    ELSE LET k  == IF x.e % 2 = 0 THEN 54 ELSE 55
             st == SqrtLoop(<<54, 0, 0, 0, 0>>, x, k, 55)
         IN  Pack(1, st[4], st[5], (x.e - k) \div 2, st[2] # 0 \/ st[3] # 0)

\* x >= y
FGeq(x, y) ==
    LET bigger(u, v) ==  \* |u| >= |v| for non-zero u, v
            \/ u.e > v.e
            \/ u.e = v.e /\ u.hi > v.hi
            \/ u.e = v.e /\ u.hi = v.hi /\ u.lo >= v.lo
    IN  IF x.s # y.s THEN x.s > y.s
        ELSE IF x.s = 0 THEN TRUE
        ELSE IF x.s = 1 THEN bigger(x, y)
        ELSE bigger(y, x)

\* the significand as a numeral
SigBig(x) == BigTrim(<<x.lo % Base, x.lo \div Base, x.hi % Base, x.hi \div Base>>)

\* a number of hundredths, of any size
Cents(k) == [sgn |-> Sgn(k), mag |-> BigOf(Abs(k))]

\* the integer a number of hundredths below 2^31 stands for
CentsInt(c) == c.sgn * BigToInt(c.mag)

\* round(x, 2) in hundredths: the integer nearest to 100 * x for the exact
\* value of the float x, a tie going to the even one
Round2(x) ==
    LET m100 == BigMul(SigBig(x), BigOf(100))
        mag  == IF x.e >= 0 THEN BigShl(m100, x.e)
                ELSE BigShrNearestEven(m100, -x.e)
    IN  [sgn |-> IF mag = <<>> THEN 0 ELSE x.s, mag |-> mag]

\* the float literals of the calculations
Lit_0_9 == FDiv(FromInt(9), FromInt(10))

Lit_0_75 == FDiv(FromInt(75), FromInt(100))

Lit_0_17 == FDiv(FromInt(17), FromInt(100))

Lit_1e6 == FromInt(1000000)

(***************************************************************************)
(* ACI calculations (src/app.py:15-34).                                    *)
(***************************************************************************)
\* the Python exceptions the calculations can raise
NoExc == "none"

Returned(v) == [exc |-> NoExc, val |-> v]

Raised(e) == [exc |-> e, val |-> <<>>]

\* w * L**2 / k
MomentOver(w, L, k, libm) == FDiv(FMul(w, Pow2(L, libm)), FromInt(k))

\* max_moment with the divisors of "Fixed End" and "Overhang" exchanged
max_moment_swapped(beam, w, L, libm) ==
    IF beam = "Simply Supported" THEN MomentOver(w, L, 8, libm)
    ELSE IF beam = "Fixed End" THEN MomentOver(w, L, 10, libm)
    ELSE IF beam = "Cantilever" THEN MomentOver(w, L, 2, libm)
    ELSE IF beam = "Overhang" THEN MomentOver(w, L, 12, libm)
    ELSE FZero

\* max_moment taking every variant for a simply supported beam
max_moment_allSimple(beam, w, L, libm) ==
    IF beam \in {"Simply Supported", "Fixed End", "Cantilever", "Overhang"}
    THEN MomentOver(w, L, 8, libm)
    ELSE FZero

\* w and L are floats; libm is the C library's choice for L**2
max_moment(beam, w, L, libm) ==
    IF beam = "Simply Supported" THEN MomentOver(w, L, 8, libm)
    ELSE IF beam = "Fixed End" THEN MomentOver(w, L, 12, libm)
    ELSE IF beam = "Cantilever" THEN MomentOver(w, L, 2, libm)
    ELSE IF beam = "Overhang" THEN MomentOver(w, L, 10, libm)
    ELSE FZero

\* phi * fy * d * 0.9, the divisor of As
FlexDivisor(d, fy) == FMul(FMul(FMul(Lit_0_9, fy), d), Lit_0_9)

\* As computed from the rounded Mu
SteelArea_roundedMu(Mu, d, fy) ==
    FDiv(FMul(FDiv(FromInt(CentsInt(Round2(Mu))), FromInt(100)), Lit_1e6),
         FlexDivisor(d, fy))

\* As before rounding: (Mu * 1e6) / (phi * fy * d * 0.9)
SteelArea(Mu, d, fy) == FDiv(FMul(Mu, Lit_1e6), FlexDivisor(d, fy))

flexural_design(beam, w, L, b, d, fc, fy, libm) ==
    LET Mu == max_moment(beam, w, L, libm)
    IN  IF FlexDivisor(d, fy).s = 0
        THEN Raised("ZeroDivisionError")
        ELSE Returned([Mu |-> Round2(Mu),
                       As |-> Round2(SteelArea(Mu, d, fy))])

\* Vu = w * L / 2
ShearDemand(w, L) == FDiv(FMul(w, L), FromInt(2))

\* phi * Vc with the flexural phi = 0.9 in place of 0.75
ShearCapacity_flexPhi(b, d, fc) ==
    FMul(Lit_0_9,
         FDiv(FMul(FMul(FMul(Lit_0_17, FSqrt(fc)), b), d), FromInt(1000)))

\* phi * Vc with Vc = 0.17 * math.sqrt(fc) * b * d / 1000, for fc >= 0
ShearCapacity(b, d, fc) ==
    FMul(Lit_0_75,
         FDiv(FMul(FMul(FMul(Lit_0_17, FSqrt(fc)), b), d), FromInt(1000)))

\* the status decided on the rounded values
ShearStatus_rounded(phiVc, Vu) ==
    IF CentsInt(Round2(phiVc)) >= CentsInt(Round2(Vu))
    THEN "SAFE" ELSE "STIRRUPS REQUIRED"

\* the status with the comparison turned around
ShearStatus_inverted(phiVc, Vu) ==
    IF FGeq(Vu, phiVc) THEN "SAFE" ELSE "STIRRUPS REQUIRED"

ShearStatus(phiVc, Vu) ==
    IF FGeq(phiVc, Vu) THEN "SAFE" ELSE "STIRRUPS REQUIRED"

shear_design(w, L, b, d, fc) ==
    IF fc.s < 0
    THEN Raised("ValueError")
    ELSE LET Vu    == ShearDemand(w, L)
             phiVc == ShearCapacity(b, d, fc)
         IN  Returned([Vu |-> Round2(Vu), Vc |-> Round2(phiVc),
                       status |-> ShearStatus(phiVc, Vu)])

(***************************************************************************)
(* draw_beam (src/app.py:39-93): the support symbols drawn, each with its  *)
(* position along the 10-unit canvas in quarters of a unit.                *)
(***************************************************************************)
Support(kind, x4) == [kind |-> kind, x4 |-> x4]

draw_beam(beam) ==
    [title |-> beam \o " Beam",
     supports |->
        IF beam = "Simply Supported"
        THEN {Support("pin", 4), Support("roller", 36)}
        ELSE IF beam = "Fixed End"
        THEN {Support("block", 4), Support("block", 36)}
        ELSE IF beam = "Cantilever"
        THEN {Support("block", 4)}
        ELSE IF beam = "Overhang"
        THEN {Support("pin", 10), Support("roller", 36)}
        ELSE {}]

(***************************************************************************)
(* draw_diagrams (src/app.py:99-131): the arrays plotted.                  *)
(***************************************************************************)
\* np.linspace without its end point: steps of L / num
linspace_noEndpoint(L, num) ==
    [i \in 1..num |-> RatMul(RatInt(i - 1), Rat(L, num))]

\* np.linspace(0, L, num): num points, point i (from 1) at (i - 1) * L / (num - 1)
linspace(L, num) ==
    [i \in 1..num |-> RatMul(RatInt(i - 1), Rat(L, num - 1))]

\* w * (span - x), the shear with span = L/2 or L
ShearAt(w, span, x) == RatMul(RatInt(w), RatSub(span, x))

\* w * x * (L - x) / k
MomentAt(w, L, x, k) ==
    RatDivInt(RatMul(RatMul(RatInt(w), x), RatSub(RatInt(L), x)), k)

\* w * (L - x)**2 / 2
CantileverMomentAt(w, L, x) ==
    RatDivInt(RatMul(RatInt(w),
                     RatMul(RatSub(RatInt(L), x), RatSub(RatInt(L), x))), 2)

draw_diagrams(beam, w, L) ==
    LET x == linspace(L, NumSamples)
        n == NumSamples
    IN  IF beam = "Simply Supported"
        THEN [x |-> x,
              V |-> [i \in 1..n |-> ShearAt(w, Rat(L, 2), x[i])],
              M |-> [i \in 1..n |-> MomentAt(w, L, x[i], 2)]]
        ELSE IF beam = "Cantilever"
        THEN [x |-> x,
              V |-> [i \in 1..n |-> ShearAt(w, RatInt(L), x[i])],
              M |-> [i \in 1..n |-> CantileverMomentAt(w, L, x[i])]]
        ELSE IF beam = "Fixed End"
        THEN [x |-> x,
              V |-> [i \in 1..n |-> ShearAt(w, Rat(L, 2), x[i])],
              M |-> [i \in 1..n |-> MomentAt(w, L, x[i], 12)]]
        ELSE [x |-> x,
              V |-> [i \in 1..n |-> ShearAt(w, Rat(L, 2), x[i])],
              M |-> [i \in 1..n |-> MomentAt(w, L, x[i], 10)]]

(***************************************************************************)
(* The page (src/app.py:137-177).                                          *)
(***************************************************************************)
VARIABLES
    beam,       \* selectbox "Beam Type"
    w,          \* number_input "Load w (kN/m)"
    L,          \* number_input "Span L (m)"
    b,          \* number_input "Width b (mm)"
    d,          \* number_input "Depth d (mm)"
    fc,         \* number_input "Concrete Strength f'c (MPa)"
    fy,         \* number_input "Steel Yield Strength fy (MPa)"
    calc,       \* the button's value in the last run of the script
    error,      \* the exception that ended the last run, or NoExc
    results,    \* the "Design Results" shown, or <<>>
    schematic,  \* the "Beam Diagram" figure shown, or <<>>
    diagrams    \* the shear force and bending moment figure shown, or <<>>

inputs == <<beam, w, L, b, d, fc, fy>>

vars == <<beam, w, L, b, d, fc, fy, calc, error, results, schematic, diagrams>>

BeamSet == {BeamOptions[i] : i \in 1..Len(BeamOptions)}

\* A run of the script in which the button reads False: the handler
\* (src/app.py:156-177) is skipped and nothing is shown under the widgets.
RerunIdle ==
    /\ calc' = FALSE
    /\ error' = NoExc
    /\ results' = <<>>
    /\ schematic' = <<>>
    /\ diagrams' = <<>>

\* The run of the script the button's click causes: the handler computes
\* the design on the float values of the widgets, then draws; an exception
\* ends the run where it is raised.
RerunClicked(libm) ==
    LET fl == flexural_design(beam, FromInt(w), FromInt(L), FromInt(b),
                              FromInt(d), FromInt(fc), FromInt(fy), libm)
        sh == shear_design(FromInt(w), FromInt(L), FromInt(b), FromInt(d),
                           FromInt(fc))
    IN  /\ calc' = TRUE
        /\ IF fl.exc # NoExc
           THEN /\ error' = fl.exc
                /\ results' = <<>>
                /\ schematic' = <<>>
                /\ diagrams' = <<>>
           ELSE IF sh.exc # NoExc
           THEN /\ error' = sh.exc
                /\ results' = <<>>
                /\ schematic' = <<>>
                /\ diagrams' = <<>>
           ELSE /\ error' = NoExc
                /\ results' = [Mu |-> fl.val.Mu, As |-> fl.val.As,
                               Vu |-> sh.val.Vu, Vc |-> sh.val.Vc,
                               status |-> sh.val.status]
                /\ schematic' = draw_beam(beam)
                /\ diagrams' = draw_diagrams(beam, w, L)

Init ==
    /\ beam = BeamOptions[1]
    /\ w = 30
    /\ L = 20
    /\ b = 300
    /\ d = 500
    /\ fc = 30
    /\ fy = 420
    /\ calc = FALSE
    /\ error = NoExc
    /\ results = <<>>
    /\ schematic = <<>>
    /\ diagrams = <<>>

SelectBeam ==
    \E v \in BeamSet \ {beam} :
        /\ beam' = v
        /\ UNCHANGED <<w, L, b, d, fc, fy>>
        /\ RerunIdle

SetLoad ==
    \E v \in LoadValues \ {w} :
        /\ w' = v
        /\ UNCHANGED <<beam, L, b, d, fc, fy>>
        /\ RerunIdle

SetSpan ==
    \E v \in SpanValues \ {L} :
        /\ L' = v
        /\ UNCHANGED <<beam, w, b, d, fc, fy>>
        /\ RerunIdle

SetWidth ==
    \E v \in WidthValues \ {b} :
        /\ b' = v
        /\ UNCHANGED <<beam, w, L, d, fc, fy>>
        /\ RerunIdle

SetDepth ==
    \E v \in DepthValues \ {d} :
        /\ d' = v
        /\ UNCHANGED <<beam, w, L, b, fc, fy>>
        /\ RerunIdle

SetFc ==
    \E v \in FcValues \ {fc} :
        /\ fc' = v
        /\ UNCHANGED <<beam, w, L, b, d, fy>>
        /\ RerunIdle

SetFy ==
    \E v \in FyValues \ {fy} :
        /\ fy' = v
        /\ UNCHANGED <<beam, w, L, b, d, fc>>
        /\ RerunIdle

\* A click while the results are shown reruns the script on the same inputs
\* and shows the same page again: a stuttering step.
ClickCalculate ==
    /\ ~calc
    /\ UNCHANGED inputs
    /\ \E libm \in PowRoundings(FromInt(L)) : RerunClicked(libm)

Next ==
    \/ SelectBeam
    \/ SetLoad
    \/ SetSpan
    \/ SetWidth
    \/ SetDepth
    \/ SetFc
    \/ SetFy
    \/ ClickCalculate

Spec == Init /\ [][Next]_vars

(***************************************************************************)
(* The core called directly, as computeDesign and renderEnvelopeDiagrams   *)
(* of a caller other than the page: any variant string can be passed.      *)
(***************************************************************************)
InitCore ==
    /\ beam \in BeamSet \cup {UnknownBeam}
    /\ w \in LoadValues
    /\ L \in SpanValues
    /\ b \in WidthValues
    /\ d \in DepthValues
    /\ fc \in FcValues
    /\ fy \in FyValues
    /\ calc = FALSE
    /\ error = NoExc
    /\ results = <<>>
    /\ schematic = <<>>
    /\ diagrams = <<>>

CallCore ==
    /\ ~calc
    /\ UNCHANGED inputs
    /\ \E libm \in PowRoundings(FromInt(L)) : RerunClicked(libm)

NextCore == CallCore

SpecCore == InitCore /\ [][NextCore]_vars

(***************************************************************************)
(* Properties.                                                             *)
(***************************************************************************)
\* the design results are on the page
Shown == calc /\ error = NoExc

Defaults ==
    /\ beam = "Simply Supported"
    /\ w = 30 /\ L = 20 /\ b = 300 /\ d = 500 /\ fc = 30 /\ fy = 420

\* the divisor of w * L^2 in the maximum-moment table
TableDivisor(bm) ==
    CASE bm = "Simply Supported" -> 8
      [] bm = "Fixed End" -> 12
      [] bm = "Cantilever" -> 2
      [] bm = "Overhang" -> 10

\* h hundredths is a nearest hundredth of num / den (den > 0)
NearestHundredth(h, num, den) ==
    /\ (2 * h - 1) * den <= 200 * num
    /\ 200 * num <= (2 * h + 1) * den

\* the float x is a float nearest to num / den (den > 0): it lies within half
\* a unit of its last bit of the quotient
FloatNearest(x, num, den) ==
    IF num = 0 THEN x = FZero
    ELSE /\ x.s = Sgn(num)
         /\ LET N2 == BigShl(BigOf(2 * Abs(num)), IF x.e < 0 THEN -x.e ELSE 0)
                D  == BigShl(BigOf(den), IF x.e > 0 THEN x.e ELSE 0)
                M2 == BigMul(BigMul(BigOf(2), SigBig(x)), D)
            IN  /\ BigCmp(M2, BigAdd(N2, D)) <= 0
                /\ BigCmp(N2, BigAdd(M2, D)) <= 0

\* C1: for every load and span max_moment returns w*L^2/8 (Simply Supported),
\* w*L^2/12 (Fixed End), w*L^2/2 (Cantilever), w*L^2/10 (Overhang), as the
\* float nearest to it; with w = 30, L = 20 these are exactly 1500, 1000,
\* 6000 and 1200, and the Mu shown is that value to the nearest hundredth.
C1_MaxMomentTable ==
    /\ \A libm \in LibmRoundings :
          FloatNearest(max_moment(beam, FromInt(w), FromInt(L), libm),
                       w * L * L, TableDivisor(beam))
    /\ \A libm \in LibmRoundings :
          max_moment("Simply Supported", FromInt(30), FromInt(20), libm) = FromInt(1500)
    /\ \A libm \in LibmRoundings :
          max_moment("Fixed End", FromInt(30), FromInt(20), libm) = FromInt(1000)
    /\ \A libm \in LibmRoundings :
          max_moment("Cantilever", FromInt(30), FromInt(20), libm) = FromInt(6000)
    /\ \A libm \in LibmRoundings :
          max_moment("Overhang", FromInt(30), FromInt(20), libm) = FromInt(1200)
    /\ Shown => NearestHundredth(CentsInt(results.Mu), w * L * L,
                                 TableDivisor(beam))

C1_Witness ==
    /\ Shown
    /\ beam = "Fixed End" /\ w = 11 /\ L = 23
    /\ results.Mu = Cents(48492)

\* C2 as stated: the design for ("Simply Supported", 30, 20, 300, 500, 30, 420)
\* is Mu = 1500.00, As = 8818.34, Vu = 300.00, phi*Vc = 104.77 and
\* STIRRUPS REQUIRED.
C2_AsStated ==
    (calc /\ Defaults) =>
        /\ error = NoExc
        /\ results = [Mu |-> Cents(150000), As |-> Cents(881834),
                      Vu |-> Cents(30000), Vc |-> Cents(10477),
                      status |-> "STIRRUPS REQUIRED"]

\* C2, amended: the design for ("Simply Supported", 30, 20, 300, 500, 30, 420)
\* is Mu = 1500.00, As = 8818.34, Vu = 300.00, phi*Vc = 104.75 and
\* STIRRUPS REQUIRED.
C2_DefaultDesign ==
    (calc /\ Defaults) =>
        /\ error = NoExc
        /\ results = [Mu |-> Cents(150000), As |-> Cents(881834),
                      Vu |-> Cents(30000), Vc |-> Cents(10475),
                      status |-> "STIRRUPS REQUIRED"]

C2_Witness ==
    /\ calc /\ Defaults
    /\ results # <<>>
    /\ results.Vc = Cents(10475)

\* 0.75 * (0.17 * sqrt(fc) * b * d / 1000) >= w * L / 2, that is
\* 51 * b * d * sqrt(fc) >= 200000 * w * L, decided on integers (fc >= 0)
ExactlySafe(w0, L0, b0, d0, fc0) ==
    LET A   == IF fc0 = 0 THEN 0 ELSE 51 * b0 * d0
        B   == 200000 * w0 * L0
        cmp == BigCmp(BigMul(BigSq(BigOf(Abs(A))), BigOf(fc0)), BigSq(BigOf(Abs(B))))
    IN  IF A >= 0 /\ B <= 0 THEN TRUE
        ELSE IF A <= 0 /\ B >= 0 THEN FALSE
        ELSE IF A > 0 THEN cmp >= 0
        ELSE cmp <= 0

\* C3: whatever the variant, Vu = w*L/2, and the status is SAFE exactly when
\* 0.75 * (0.17*sqrt(fc)*b*d/1000) >= w*L/2 on the unrounded values,
\* STIRRUPS REQUIRED otherwise.
C3_ShearStatus ==
    Shown =>
        /\ results.Vu = Cents(50 * w * L)
        /\ results.status \in {"SAFE", "STIRRUPS REQUIRED"}
        /\ results.status = "SAFE" <=> ExactlySafe(w, L, b, d, fc)

\* a cantilever whose rounded capacity equals the rounded demand while the
\* capacity is the smaller
C3_Witness ==
    /\ Shown
    /\ beam = "Cantilever" /\ w = 11 /\ L = 23 /\ b = 250 /\ d = 750 /\ fc = 28
    /\ results.Vu = Cents(12650)
    /\ results.Vc = Cents(12650)
    /\ results.status = "STIRRUPS REQUIRED"

\* h hundredths is a nearest hundredth of 10^8 * num / den: the steel area
\* of the unrounded moment num / k over 0.81 * fy * d = den / (100 * k)
NearestArea(h, num, den) ==
    LET N == BigMul(BigOf(2 * Abs(num)), BigSq(BigOf(100000)))
        D == BigOf(Abs(den))
    IN  /\ Sgn(h) \in {0, Sgn(num) * Sgn(den)}
        /\ Abs(h) = 0 \/ BigCmp(BigMul(BigOf(2 * Abs(h) - 1), D), N) <= 0
        /\ BigCmp(N, BigMul(BigOf(2 * Abs(h) + 1), D)) <= 0

\* C4: As is (Mu_max * 10^6) / (0.9 * fy * d * 0.9) of the unrounded Mu_max,
\* rounded to 2 decimals only on return, and flexural_design returns the same
\* (Mu, As) whatever b and fc are.
C4_SteelArea ==
    Shown =>
        /\ NearestArea(CentsInt(results.As), w * L * L,
                       81 * TableDivisor(beam) * fy * d)
        /\ \A b2 \in WidthValues \ {b}, fc2 \in FcValues \ {fc},
              libm \in LibmRoundings :
              flexural_design(beam, FromInt(w), FromInt(L), FromInt(b2),
                              FromInt(d), FromInt(fc2), FromInt(fy), libm)
                  = Returned([Mu |-> results.Mu, As |-> results.As])

\* a moment of 366.666... kN-m: rounding it first would give As = 4311.23
C4_Witness ==
    /\ Shown
    /\ beam = "Fixed End" /\ w = 11 /\ L = 20 /\ d = 250 /\ fy = 420
    /\ results.Mu = Cents(36667)
    /\ results.As = Cents(431119)

\* C5 as stated: with fc < 0, d <= 0 or fy <= 0 the design computation ends in
\* an error and shows no numeric result.
C5_DomainError ==
    (calc /\ (fc < 0 \/ d <= 0 \/ fy <= 0)) => (error # NoExc /\ results = <<>>)

\* C6 as stated: with L <= 0 draw_diagrams ends in an error and returns no
\* figure.
C6_DegenerateSpan ==
    (calc /\ L <= 0 /\ results # <<>>) => (error # NoExc /\ diagrams = <<>>)

\* C7 as stated: for a variant outside the four, no error, max_moment is 0 and
\* the envelope is zero at every sample, for every w and L > 0.
C7_UnknownVariant ==
    (calc /\ beam \notin BeamSet /\ L > 0 /\ error = NoExc) =>
        /\ \A libm \in LibmRoundings :
              max_moment(beam, FromInt(w), FromInt(L), libm) = FZero
        /\ results.Mu = Cents(0)
        /\ \A i \in 1..NumSamples :
              diagrams.V[i] = RatInt(0) /\ diagrams.M[i] = RatInt(0)

\* the shear and the moment of the distribution table at sample i of 100,
\* x = (i - 1) * L / 99
TableShear(bm, w0, L0, i) ==
    IF bm = "Cantilever"
    THEN Rat(w0 * L0 * (100 - i), 99)
    ELSE Rat(w0 * L0 * (101 - 2 * i), 198)

TableMoment(bm, w0, L0, i) ==
    CASE bm = "Simply Supported" -> Rat(w0 * L0 * L0 * (i - 1) * (100 - i), 9801 * 2)
      [] bm = "Fixed End"        -> Rat(w0 * L0 * L0 * (i - 1) * (100 - i), 9801 * 12)
      [] bm = "Cantilever"       -> Rat(w0 * L0 * L0 * (100 - i) * (100 - i), 9801 * 2)
      [] bm = "Overhang"         -> Rat(w0 * L0 * L0 * (i - 1) * (100 - i), 9801 * 10)

\* C8: draw_diagrams samples 100 evenly spaced points from 0 to L inclusive
\* and plots the distribution table at each; at the ends M(0) = M(L) = 0 and
\* V(0) = -V(L) = w*L/2 (Simply Supported, Fixed End, Overhang), and
\* V(L) = M(L) = 0, V(0) = w*L, M(0) = w*L^2/2 (Cantilever).
C8_Envelope ==
    diagrams # <<>> =>
        /\ Len(diagrams.x) = 100 /\ Len(diagrams.V) = 100 /\ Len(diagrams.M) = 100
        /\ diagrams.x[1] = RatInt(0)
        /\ diagrams.x[100] = RatInt(L)
        /\ \A i \in 1..100 :
              /\ diagrams.x[i] = Rat((i - 1) * L, 99)
              /\ diagrams.V[i] = TableShear(beam, w, L, i)
              /\ diagrams.M[i] = TableMoment(beam, w, L, i)
        /\ IF beam = "Cantilever"
           THEN /\ diagrams.V[100] = RatInt(0)
                /\ diagrams.M[100] = RatInt(0)
                /\ diagrams.V[1] = RatInt(w * L)
                /\ diagrams.M[1] = Rat(w * L * L, 2)
           ELSE /\ diagrams.M[1] = RatInt(0)
                /\ diagrams.M[100] = RatInt(0)
                /\ diagrams.V[1] = Rat(w * L, 2)
                /\ diagrams.V[100] = Rat(-(w * L), 2)

C8_Witness ==
    /\ diagrams # <<>>
    /\ beam = "Fixed End" /\ w = 30 /\ L = 20
    /\ diagrams.x[100] = RatInt(20)
    /\ diagrams.V[1] = RatInt(300)
    /\ diagrams.V[100] = RatInt(-300)
    /\ diagrams.M[50] = Rat(30 * 400 * 49 * 50, 9801 * 12)

\* C9: for fixed w, L, fc >= 0 and positive b, d, a SAFE status stays SAFE
\* for every b' >= b and d' >= d.
C9_Monotonic ==
    (Shown /\ b > 0 /\ d > 0 /\ fc >= 0 /\ results.status = "SAFE") =>
        \A b2 \in WidthValues, d2 \in DepthValues :
            (b2 >= b /\ d2 >= d) =>
                ShearStatus(ShearCapacity(FromInt(b2), FromInt(d2), FromInt(fc)),
                            ShearDemand(FromInt(w), FromInt(L))) = "SAFE"

\* SAFE at 250 x 750 (130.91 kN against 126.50 kN), where 250 x 500 is not,
\* and a larger section lies in the domain
C9_Witness ==
    /\ Shown
    /\ w = 11 /\ L = 23 /\ b = 250 /\ d = 750 /\ fc = 30
    /\ results.status = "SAFE"
    /\ ShearStatus(ShearCapacity(FromInt(250), FromInt(500), FromInt(30)),
                   ShearDemand(FromInt(11), FromInt(23))) = "STIRRUPS REQUIRED"
    /\ \E b2 \in WidthValues : b2 > b

\* the fraction r is at most the float x
RatLeqFloat(r, x) ==
    LET A   == BigShl(BigOf(Abs(r.n)), IF x.e < 0 THEN -x.e ELSE 0)
        B   == BigShl(BigMul(SigBig(x), BigOf(r.d)), IF x.e > 0 THEN x.e ELSE 0)
        cmp == BigCmp(A, B)
    IN  IF Sgn(r.n) # x.s THEN Sgn(r.n) < x.s
        ELSE IF x.s = 0 THEN TRUE
        ELSE IF x.s = 1 THEN cmp <= 0
        ELSE cmp >= 0

\* C10: for the four variants, w >= 0 and L > 0, every sampled moment lies
\* between 0 and max_moment(variant, w, L).
C10_MomentBound ==
    (diagrams # <<>> /\ w >= 0 /\ L > 0) =>
        \A i \in 1..NumSamples :
            /\ diagrams.M[i].n >= 0
            /\ \A libm \in LibmRoundings :
                  RatLeqFloat(diagrams.M[i],
                              max_moment(beam, FromInt(w), FromInt(L), libm))

\* a cantilever, whose moment at the support equals the design moment
C10_Witness ==
    /\ diagrams # <<>>
    /\ beam = "Cantilever" /\ w = 30 /\ L = 23
    /\ \A libm \in LibmRoundings :
          max_moment(beam, FromInt(w), FromInt(L), libm) = FromInt(7935)
    /\ diagrams.M[1] = RatInt(7935)

=============================================================================
